---- MODULE Spec2Model ----
(***************************************************************************)
(* Multi-venue supervisor of the order book monitor (cmd main package),    *)
(* the persistence collector (internal/collector) and the Supabase batch   *)
(* insert (internal/database).  The order book engine and the exchange     *)
(* adapters are other packages of the repository; they are modelled from   *)
(* their contracts (sections 4.2 and 4.4 of the specification).            *)
(***************************************************************************)
EXTENDS Integers, Sequences, FiniteSets, TLC

\* ---- bounds of the model ----
MaxSignals == 1       \* interrupt signals the operating system delivers
MaxUpdates == 2       \* depth updates one stream yields
MaxPrice == 6         \* highest price level of a book, in ticks

\* ---- program constants ----
InterruptCap == 1     \* make(chan os.Signal, 1)
Unlocked == 0         \* the zero value of sync.Mutex and sync.RWMutex

\* Two of the ten venues of getExchangeNames, in list order.
Venues == {1, 2}

\* Pointers: nil, and the address of a value.
Nil == <<>>
Ptr(x) == <<x>>

\* decimal.Decimal prices, counted in half ticks so that Div(2) is exact;
\* zero is the value of an empty side.
Prices == {2 * i : i \in 0..MaxPrice}

\* types.Stats of an empty book.
NoStats == [BestBid |-> 0, BestAsk |-> 0]

VARIABLES
  mainPc,        \* position of runMultiExchange
  dbEnabled,     \* the -db-enabled flag; dataCollector != nil iff TRUE
  interrupt,     \* number of signals queued in the interrupt channel
  signals,       \* signals delivered by the operating system so far
  mainGot,       \* the main loop's <-interrupt has received
  done,          \* done channel closed
  exchangesDone, \* exchangesDone channel closed
  sxPc,          \* position of the goroutine running startExchangesForSymbol
  wg,            \* sync.WaitGroup counter
  pc,            \* position of each per-venue pipeline goroutine
  exitCause,     \* which branch ended each pipeline
  steps,         \* per pipeline, the startup calls made so far, in order
  ex,            \* per venue, the adapter
  updatesCh,     \* per venue, the queue of ex.Updates()
  updPc,         \* position of each update-application goroutine
  reinitPc,      \* position of each reinit timer goroutine
  ob,            \* per venue, the order book
  orderbooks,    \* the slice the stats printer iterates
  orderbooksMap, \* keys of orderbooksMap
  obMutex,       \* holder of obMutex: Unlocked, a venue, or -1 for the stats printer
  statsPc,       \* position of the stats printer goroutine
  statsIdx,      \* printCombinedStats: index of the next entry of the list, 0 outside the call
  colPc,         \* position of Collector.Start
  colOrderbooks, \* keys of Collector.orderbooks
  colMu,         \* holder of Collector.mu: Unlocked, a venue (Lock), or -1 for the collector (RLock)
  colCopy,       \* collectAndStore: the copied registry
  colTodo,       \* collectAndStore: entries of the copy not yet examined
  colSeenInit,   \* collectAndStore: venues whose IsInitialized() returned true
  snapshots,     \* collectAndStore: the batch being built
  dbCalls,       \* InsertOrderbookSnapshotsBatch calls made in this tick
  dbPosts,       \* HTTP POSTs the database client issued in this tick
  dbErr,         \* the last InsertOrderbookSnapshotsBatch call returned an error
  stats,         \* what ob.GetStats() returns: best bid and best ask, 0 for an empty side
  snapshot       \* the row createSnapshot returned last, Nil before

supVars == <<mainPc, dbEnabled, mainGot, done, exchangesDone, sxPc, wg>>
sigVars == <<interrupt, signals>>
pipeVars == <<pc, exitCause, steps>>
adVars == <<ex, updatesCh>>
updVars == <<updPc>>
reVars == <<reinitPc>>
regVars == <<orderbooks, orderbooksMap, obMutex, colOrderbooks, colMu>>
stVars == <<statsPc, statsIdx>>
colVars == <<colPc, colCopy, colTodo, colSeenInit, snapshots, dbCalls, dbPosts, dbErr, stats, snapshot>>
vars == <<supVars, sigVars, pipeVars, adVars, updVars, reVars, ob, regVars, stVars, colVars>>

\* The process lives until main returns or log.Fatalf ends it.
alive == mainPc \notin {"returned", "fatal"}

\* orderbook.New(): empty, uninitialized, its lock free.
NewOrderBook == [initialized |-> FALSE, pending |-> <<>>, applied |-> <<>>, readers |-> 0]

\* An adapter before Connect.
NewExchange == [connected |-> FALSE, closes |-> 0, streamOpen |-> FALSE, produced |-> 0]

Init ==
  /\ mainPc = "init"
  /\ dbEnabled \in BOOLEAN
  /\ interrupt = 0
  /\ signals = 0
  /\ mainGot = FALSE
  /\ done = FALSE
  /\ exchangesDone = FALSE
  /\ sxPc = "idle"
  /\ wg = 0
  /\ pc = [p \in Venues |-> "unspawned"]
  /\ exitCause = [p \in Venues |-> "none"]
  /\ steps = [p \in Venues |-> <<>>]
  /\ ex = [p \in Venues |-> NewExchange]
  /\ updatesCh = [p \in Venues |-> <<>>]
  /\ updPc = [p \in Venues |-> "none"]
  /\ reinitPc = [p \in Venues |-> "none"]
  /\ ob = [p \in Venues |-> NewOrderBook]
  /\ orderbooks = <<>>
  /\ orderbooksMap = {}
  /\ obMutex = Unlocked
  /\ statsPc = "none"
  /\ statsIdx = 0
  /\ colPc = "none"
  /\ colOrderbooks = {}
  /\ colMu = Unlocked
  /\ colCopy = {}
  /\ colTodo = {}
  /\ colSeenInit = {}
  /\ snapshots = <<>>
  /\ dbCalls = 0
  /\ dbPosts = 0
  /\ dbErr = FALSE
  /\ stats = NoStats
  /\ snapshot = Nil

\* ---- the operating system: signal.Notify(interrupt, os.Interrupt) ----
\* A signal is queued if the channel has room and dropped otherwise.
Signal ==
  /\ alive
  /\ signals < MaxSignals
  /\ signals' = signals + 1
  /\ interrupt' = IF interrupt < InterruptCap THEN interrupt + 1 ELSE interrupt
  /\ UNCHANGED <<supVars, pipeVars, adVars, updVars, reVars, ob, regVars, stVars, colVars>>

\* ---- runMultiExchange ----
\* dbEnabled: TestConnection succeeded, the collector is started.
MainDbInit ==
  /\ mainPc = "init"
  /\ dbEnabled
  /\ mainPc' = "loop"
  /\ colPc' = "select"
  /\ UNCHANGED <<dbEnabled, mainGot, done, exchangesDone, sxPc, wg, sigVars, pipeVars, adVars,
                 updVars, reVars, ob, regVars, stVars, colCopy, colTodo, colSeenInit,
                 snapshots, dbCalls, dbPosts, dbErr, stats, snapshot>>

\* dbEnabled: TestConnection failed, log.Fatalf ends the process.
MainDbFatal ==
  /\ mainPc = "init"
  /\ dbEnabled
  /\ mainPc' = "fatal"
  /\ UNCHANGED <<dbEnabled, mainGot, done, exchangesDone, sxPc, wg, sigVars, pipeVars, adVars,
                 updVars, reVars, ob, regVars, stVars, colVars>>

\* !dbEnabled: dataCollector stays nil.
MainNoDb ==
  /\ mainPc = "init"
  /\ ~dbEnabled
  /\ mainPc' = "loop"
  /\ UNCHANGED <<dbEnabled, mainGot, done, exchangesDone, sxPc, wg, sigVars, pipeVars, adVars,
                 updVars, reVars, ob, regVars, stVars, colVars>>

\* make(done), make(exchangesDone), go func() { startExchangesForSymbol(...) }.
MainStart ==
  /\ mainPc = "loop"
  /\ mainPc' = "wait"
  /\ sxPc' = "spawn"
  /\ UNCHANGED <<dbEnabled, mainGot, done, exchangesDone, wg, sigVars, pipeVars, adVars,
                 updVars, reVars, ob, regVars, stVars, colVars>>

\* <-interrupt in the main loop.
MainRecvInterrupt ==
  /\ mainPc = "wait"
  /\ interrupt > 0
  /\ interrupt' = interrupt - 1
  /\ mainGot' = TRUE
  /\ mainPc' = "closeDone"
  /\ UNCHANGED <<dbEnabled, done, exchangesDone, sxPc, wg, signals, pipeVars, adVars,
                 updVars, reVars, ob, regVars, stVars, colVars>>

\* close(done).
MainCloseDone ==
  /\ mainPc = "closeDone"
  /\ done' = TRUE
  /\ mainPc' = "waitExchanges"
  /\ UNCHANGED <<dbEnabled, mainGot, exchangesDone, sxPc, wg, sigVars, pipeVars, adVars,
                 updVars, reVars, ob, regVars, stVars, colVars>>

\* Mutation of MainReturn: the main loop also returns once the exchanges are done.
MainReturnOnExchangesDone ==
  /\ mainPc \in {"wait", "waitExchanges"}
  /\ exchangesDone
  /\ mainPc' = "returned"
  /\ UNCHANGED <<dbEnabled, mainGot, done, exchangesDone, sxPc, wg, sigVars, pipeVars, adVars,
                 updVars, reVars, ob, regVars, stVars, colVars>>

\* <-exchangesDone; return.
MainReturn ==
  /\ mainPc = "waitExchanges"
  /\ exchangesDone
  /\ mainPc' = "returned"
  /\ UNCHANGED <<dbEnabled, mainGot, done, exchangesDone, sxPc, wg, sigVars, pipeVars, adVars,
                 updVars, reVars, ob, regVars, stVars, colVars>>

\* ---- startExchangesForSymbol ----
\* The venue the spawning loop handles next: the first one not yet spawned.
NextToSpawn == CHOOSE p \in Venues : pc[p] = "unspawned" /\ \A q \in Venues : q < p => pc[q] # "unspawned"

\* wg.Add(1); go func(exCfg) {...}(exConfig).
SxSpawn ==
  /\ alive
  /\ sxPc = "spawn"
  /\ \E p \in Venues : pc[p] = "unspawned"
  /\ wg' = wg + 1
  /\ pc' = [pc EXCEPT ![NextToSpawn] = "create"]
  /\ UNCHANGED <<mainPc, dbEnabled, mainGot, done, exchangesDone, sxPc, sigVars, exitCause, steps,
                 adVars, updVars, reVars, ob, regVars, stVars, colVars>>

\* go func() { centralized logging ticker }.
SxGoStats ==
  /\ alive
  /\ sxPc = "spawn"
  /\ \A p \in Venues : pc[p] # "unspawned"
  /\ statsPc' = "select"
  /\ sxPc' = "wait"
  /\ UNCHANGED <<mainPc, dbEnabled, mainGot, done, exchangesDone, wg, sigVars, pipeVars,
                 adVars, updVars, reVars, ob, regVars, statsIdx, colVars>>

\* Mutation of SxWgWait: the WaitGroup is not waited for.
SxWgWaitNoJoin ==
  /\ alive
  /\ sxPc = "wait"
  /\ sxPc' = "returned"
  /\ UNCHANGED <<mainPc, dbEnabled, mainGot, done, exchangesDone, wg, sigVars, pipeVars,
                 adVars, updVars, reVars, ob, regVars, stVars, colVars>>

\* wg.Wait() returns once the counter is zero.
SxWgWait ==
  /\ alive
  /\ sxPc = "wait"
  /\ wg = 0
  /\ sxPc' = "returned"
  /\ UNCHANGED <<mainPc, dbEnabled, mainGot, done, exchangesDone, wg, sigVars, pipeVars,
                 adVars, updVars, reVars, ob, regVars, stVars, colVars>>

\* close(exchangesDone) after startExchangesForSymbol returned.
SxCloseExchangesDone ==
  /\ alive
  /\ sxPc = "returned"
  /\ exchangesDone' = TRUE
  /\ sxPc' = "done"
  /\ UNCHANGED <<mainPc, dbEnabled, mainGot, done, wg, sigVars, pipeVars,
                 adVars, updVars, reVars, ob, regVars, stVars, colVars>>

\* ---- the order book engine (internal/orderbook) ----
\* Before initialization an update is buffered, afterwards it is applied.
HandleDepthUpdate(b, u) ==
  IF b.initialized
    THEN [b EXCEPT !.applied = Append(@, u)]
    ELSE [b EXCEPT !.pending = Append(@, u)]

\* Replaces the sides by the snapshot's levels; does not mark initialized.
LoadSnapshot(b) == [b EXCEPT !.applied = <<>>]

\* Drains pending in arrival order, then marks the book initialized.
ProcessBufferedEvents(b) ==
  [b EXCEPT !.applied = @ \o b.pending, !.pending = <<>>, !.initialized = TRUE]

\* A reinit that is honored resets the book to uninitialized before it reloads.
ResetForReinit(b) == [b EXCEPT !.initialized = FALSE]

IsInitialized(b) == b.initialized

\* The per-book lock: a mutation takes the write lock, which waits for readers.
CanWrite(b) == b.readers = 0

\* A reader enters and leaves its read lock.
RLock(b) == [b EXCEPT !.readers = @ + 1]
RUnlock(b) == [b EXCEPT !.readers = @ - 1]

\* ---- one pipeline goroutine of startExchangesForSymbol ----
Log(p, call) == [steps EXCEPT ![p] = Append(@, call)]

\* factory.NewExchange succeeded.
CreateOk(p) ==
  /\ alive
  /\ pc[p] = "create"
  /\ pc' = [pc EXCEPT ![p] = "connect"]
  /\ UNCHANGED <<supVars, sigVars, exitCause, steps, adVars, updVars, reVars, ob, regVars, stVars, colVars>>

\* factory.NewExchange failed: return (deferred wg.Done).
CreateFail(p) ==
  /\ alive
  /\ pc[p] = "create"
  /\ pc' = [pc EXCEPT ![p] = "wgDone"]
  /\ exitCause' = [exitCause EXCEPT ![p] = "create"]
  /\ UNCHANGED <<supVars, sigVars, steps, adVars, updVars, reVars, ob, regVars, stVars, colVars>>

\* ex.Connect(ctx) succeeded: the stream is open; defer ex.Close().
ConnectOk(p) ==
  /\ alive
  /\ pc[p] = "connect"
  /\ ex' = [ex EXCEPT ![p].connected = TRUE, ![p].streamOpen = TRUE]
  /\ steps' = Log(p, "Connect")
  /\ pc' = [pc EXCEPT ![p] = "getSnapshot"]
  /\ UNCHANGED <<supVars, sigVars, exitCause, updatesCh, updVars, reVars, ob, regVars, stVars, colVars>>

\* Mutation of ConnectFail: a failed Connect shuts every pipeline down.
ConnectFailCancelsAll(p) ==
  /\ alive
  /\ pc[p] = "connect"
  /\ pc' = [pc EXCEPT ![p] = "wgDone"]
  /\ exitCause' = [exitCause EXCEPT ![p] = "connect"]
  /\ done' = TRUE
  /\ UNCHANGED <<mainPc, dbEnabled, mainGot, exchangesDone, sxPc, wg, sigVars, steps, adVars,
                 updVars, reVars, ob, regVars, stVars, colVars>>

\* ex.Connect(ctx) failed: return before ex.Close() is deferred.
ConnectFail(p) ==
  /\ alive
  /\ pc[p] = "connect"
  /\ pc' = [pc EXCEPT ![p] = "wgDone"]
  /\ exitCause' = [exitCause EXCEPT ![p] = "connect"]
  /\ UNCHANGED <<supVars, sigVars, steps, adVars, updVars, reVars, ob, regVars, stVars, colVars>>

\* ex.GetSnapshot(ctx) succeeded.
GetSnapshotOk(p) ==
  /\ alive
  /\ pc[p] = "getSnapshot"
  /\ steps' = Log(p, "GetSnapshot")
  /\ pc' = [pc EXCEPT ![p] = "loadSnapshot"]
  /\ UNCHANGED <<supVars, sigVars, exitCause, adVars, updVars, reVars, ob, regVars, stVars, colVars>>

\* Mutation of GetSnapshotFail: the return skips the deferred ex.Close().
GetSnapshotFailNoClose(p) ==
  /\ alive
  /\ pc[p] = "getSnapshot"
  /\ pc' = [pc EXCEPT ![p] = "wgDone"]
  /\ exitCause' = [exitCause EXCEPT ![p] = "snapshot"]
  /\ UNCHANGED <<supVars, sigVars, steps, adVars, updVars, reVars, ob, regVars, stVars, colVars>>

\* ex.GetSnapshot(ctx) failed: return, running the deferred ex.Close().
GetSnapshotFail(p) ==
  /\ alive
  /\ pc[p] = "getSnapshot"
  /\ pc' = [pc EXCEPT ![p] = "close"]
  /\ exitCause' = [exitCause EXCEPT ![p] = "snapshot"]
  /\ UNCHANGED <<supVars, sigVars, steps, adVars, updVars, reVars, ob, regVars, stVars, colVars>>

\* ob.LoadSnapshot(snapshot) succeeded.
LoadSnapshotOk(p) ==
  /\ alive
  /\ pc[p] = "loadSnapshot"
  /\ CanWrite(ob[p])
  /\ ob' = [ob EXCEPT ![p] = LoadSnapshot(@)]
  /\ steps' = Log(p, "LoadSnapshot")
  /\ pc' = [pc EXCEPT ![p] = "goUpdates"]
  /\ UNCHANGED <<supVars, sigVars, exitCause, adVars, updVars, reVars, regVars, stVars, colVars>>

\* ob.LoadSnapshot(snapshot) failed: return, running the deferred ex.Close().
LoadSnapshotFail(p) ==
  /\ alive
  /\ pc[p] = "loadSnapshot"
  /\ pc' = [pc EXCEPT ![p] = "close"]
  /\ exitCause' = [exitCause EXCEPT ![p] = "load"]
  /\ UNCHANGED <<supVars, sigVars, steps, adVars, updVars, reVars, ob, regVars, stVars, colVars>>

\* go func() { defer close(updatesDone); for update := range ex.Updates() {...} }.
GoUpdates(p) ==
  /\ alive
  /\ pc[p] = "goUpdates"
  /\ updPc' = [updPc EXCEPT ![p] = "running"]
  /\ steps' = Log(p, "Updates")
  /\ pc' = [pc EXCEPT ![p] = "goReinit"]
  /\ UNCHANGED <<supVars, sigVars, exitCause, adVars, reVars, ob, regVars, stVars, colVars>>

\* Mutation of GoReinit: the book is shared without the initial replay.
GoReinitSkipReplay(p) ==
  /\ alive
  /\ pc[p] = "goReinit"
  /\ reinitPc' = [reinitPc EXCEPT ![p] = "select"]
  /\ pc' = [pc EXCEPT ![p] = "lockOb"]
  /\ UNCHANGED <<supVars, sigVars, exitCause, steps, adVars, updVars, ob, regVars, stVars, colVars>>

\* go func() { reinitialization check }.
GoReinit(p) ==
  /\ alive
  /\ pc[p] = "goReinit"
  /\ reinitPc' = [reinitPc EXCEPT ![p] = "select"]
  /\ pc' = [pc EXCEPT ![p] = "processBuffered"]
  /\ UNCHANGED <<supVars, sigVars, exitCause, steps, adVars, updVars, ob, regVars, stVars, colVars>>

\* ob.ProcessBufferedEvents().
ProcessBuffered(p) ==
  /\ alive
  /\ pc[p] = "processBuffered"
  /\ CanWrite(ob[p])
  /\ ob' = [ob EXCEPT ![p] = ProcessBufferedEvents(@)]
  /\ steps' = Log(p, "ProcessBufferedEvents")
  /\ pc' = [pc EXCEPT ![p] = "lockOb"]
  /\ UNCHANGED <<supVars, sigVars, exitCause, adVars, updVars, reVars, regVars, stVars, colVars>>

\* obMutex.Lock() before the shared collections are extended.
LockForAdd(p) ==
  /\ alive
  /\ pc[p] = "lockOb"
  /\ obMutex = Unlocked
  /\ obMutex' = p
  /\ pc' = [pc EXCEPT ![p] = "addShared"]
  /\ UNCHANGED <<supVars, sigVars, exitCause, steps, adVars, updVars, reVars, ob, orderbooks,
                 orderbooksMap, colOrderbooks, colMu, stVars, colVars>>

\* Mutation of AddShared: obMutex is still held when the pipeline goes on to
\* register with the collector.
AddSharedKeepsLock(p) ==
  /\ alive
  /\ pc[p] = "addShared"
  /\ orderbooks' = Append(orderbooks, p)
  /\ orderbooksMap' = orderbooksMap \cup {p}
  /\ pc' = [pc EXCEPT ![p] = "register"]
  /\ UNCHANGED <<supVars, sigVars, exitCause, steps, adVars, updVars, reVars, ob,
                 obMutex, colOrderbooks, colMu, stVars, colVars>>

\* orderbooks = append(orderbooks, ...); orderbooksMap[name] = ob; obMutex.Unlock().
AddShared(p) ==
  /\ alive
  /\ pc[p] = "addShared"
  /\ orderbooks' = Append(orderbooks, p)
  /\ orderbooksMap' = orderbooksMap \cup {p}
  /\ obMutex' = Unlocked
  /\ pc' = [pc EXCEPT ![p] = "register"]
  /\ UNCHANGED <<supVars, sigVars, exitCause, steps, adVars, updVars, reVars, ob,
                 colOrderbooks, colMu, stVars, colVars>>

\* dataCollector == nil: nothing to register.
RegisterSkip(p) ==
  /\ alive
  /\ pc[p] = "register"
  /\ ~dbEnabled
  /\ pc' = [pc EXCEPT ![p] = "select"]
  /\ UNCHANGED <<supVars, sigVars, exitCause, steps, adVars, updVars, reVars, ob, regVars, stVars, colVars>>

\* Collector.RegisterOrderbook: c.mu.Lock().
RegisterLock(p) ==
  /\ alive
  /\ pc[p] = "register"
  /\ dbEnabled
  /\ colMu = Unlocked
  /\ colMu' = p
  /\ pc' = [pc EXCEPT ![p] = "registerW"]
  /\ UNCHANGED <<supVars, sigVars, exitCause, steps, adVars, updVars, reVars, ob, orderbooks,
                 orderbooksMap, obMutex, colOrderbooks, stVars, colVars>>

\* Collector.RegisterOrderbook: c.orderbooks[exchange] = ob; deferred c.mu.Unlock().
RegisterOrderbook(p) ==
  /\ alive
  /\ pc[p] = "registerW"
  /\ colOrderbooks' = colOrderbooks \cup {p}
  /\ colMu' = Unlocked
  /\ pc' = [pc EXCEPT ![p] = "select"]
  /\ UNCHANGED <<supVars, sigVars, exitCause, steps, adVars, updVars, reVars, ob, orderbooks,
                 orderbooksMap, obMutex, stVars, colVars>>

\* A goroutine's deferred close(updatesDone) has run.
updatesDone(p) == updPc[p] = "done"

\* select: case <-updatesDone.
WaitUpdatesDone(p) ==
  /\ alive
  /\ pc[p] = "select"
  /\ updatesDone(p)
  /\ pc' = [pc EXCEPT ![p] = "unregister"]
  /\ exitCause' = [exitCause EXCEPT ![p] = "updatesDone"]
  /\ UNCHANGED <<supVars, sigVars, steps, adVars, updVars, reVars, ob, regVars, stVars, colVars>>

\* select: case <-done.
WaitDone(p) ==
  /\ alive
  /\ pc[p] = "select"
  /\ done
  /\ pc' = [pc EXCEPT ![p] = "unregister"]
  /\ exitCause' = [exitCause EXCEPT ![p] = "done"]
  /\ UNCHANGED <<supVars, sigVars, steps, adVars, updVars, reVars, ob, regVars, stVars, colVars>>

\* Mutation of WaitInterrupt: the interrupt branch returns at once.
WaitInterruptNoCleanup(p) ==
  /\ alive
  /\ pc[p] = "select"
  /\ interrupt > 0
  /\ interrupt' = interrupt - 1
  /\ pc' = [pc EXCEPT ![p] = "close"]
  /\ exitCause' = [exitCause EXCEPT ![p] = "interrupt"]
  /\ UNCHANGED <<supVars, signals, steps, adVars, updVars, reVars, ob, regVars, stVars, colVars>>

\* select: case <-interrupt.
WaitInterrupt(p) ==
  /\ alive
  /\ pc[p] = "select"
  /\ interrupt > 0
  /\ interrupt' = interrupt - 1
  /\ pc' = [pc EXCEPT ![p] = "unregister"]
  /\ exitCause' = [exitCause EXCEPT ![p] = "interrupt"]
  /\ UNCHANGED <<supVars, signals, steps, adVars, updVars, reVars, ob, regVars, stVars, colVars>>

\* dataCollector == nil: nothing to unregister.
UnregisterSkip(p) ==
  /\ alive
  /\ pc[p] = "unregister"
  /\ ~dbEnabled
  /\ pc' = [pc EXCEPT ![p] = "lockOb2"]
  /\ UNCHANGED <<supVars, sigVars, exitCause, steps, adVars, updVars, reVars, ob, regVars, stVars, colVars>>

\* Collector.UnregisterOrderbook: c.mu.Lock().
UnregisterLock(p) ==
  /\ alive
  /\ pc[p] = "unregister"
  /\ dbEnabled
  /\ colMu = Unlocked
  /\ colMu' = p
  /\ pc' = [pc EXCEPT ![p] = "unregisterW"]
  /\ UNCHANGED <<supVars, sigVars, exitCause, steps, adVars, updVars, reVars, ob, orderbooks,
                 orderbooksMap, obMutex, colOrderbooks, stVars, colVars>>

\* Mutation of UnregisterOrderbook: the registry entry is left in place.
UnregisterOrderbookKeepsEntry(p) ==
  /\ alive
  /\ pc[p] = "unregisterW"
  /\ colMu' = Unlocked
  /\ pc' = [pc EXCEPT ![p] = "lockOb2"]
  /\ UNCHANGED <<supVars, sigVars, exitCause, steps, adVars, updVars, reVars, ob, orderbooks,
                 orderbooksMap, obMutex, colOrderbooks, stVars, colVars>>

\* Collector.UnregisterOrderbook: delete(c.orderbooks, exchange); deferred c.mu.Unlock().
UnregisterOrderbook(p) ==
  /\ alive
  /\ pc[p] = "unregisterW"
  /\ colOrderbooks' = colOrderbooks \ {p}
  /\ colMu' = Unlocked
  /\ pc' = [pc EXCEPT ![p] = "lockOb2"]
  /\ UNCHANGED <<supVars, sigVars, exitCause, steps, adVars, updVars, reVars, ob, orderbooks,
                 orderbooksMap, obMutex, stVars, colVars>>

\* Mutation of LockForDelete: the map entry is deleted without obMutex.
LockForDeleteNoLock(p) ==
  /\ alive
  /\ pc[p] = "lockOb2"
  /\ pc' = [pc EXCEPT ![p] = "deleteMap"]
  /\ UNCHANGED <<supVars, sigVars, exitCause, steps, adVars, updVars, reVars, ob, regVars,
                 stVars, colVars>>

\* obMutex.Lock() before the map entry is deleted.
LockForDelete(p) ==
  /\ alive
  /\ pc[p] = "lockOb2"
  /\ obMutex = Unlocked
  /\ obMutex' = p
  /\ pc' = [pc EXCEPT ![p] = "deleteMap"]
  /\ UNCHANGED <<supVars, sigVars, exitCause, steps, adVars, updVars, reVars, ob, orderbooks,
                 orderbooksMap, colOrderbooks, colMu, stVars, colVars>>

\* delete(orderbooksMap, name); obMutex.Unlock().
DeleteFromMap(p) ==
  /\ alive
  /\ pc[p] = "deleteMap"
  /\ orderbooksMap' = orderbooksMap \ {p}
  /\ obMutex' = Unlocked
  /\ pc' = [pc EXCEPT ![p] = "close"]
  /\ UNCHANGED <<supVars, sigVars, exitCause, steps, adVars, updVars, reVars, ob, orderbooks,
                 colOrderbooks, colMu, stVars, colVars>>

\* The deferred ex.Close(): the adapter ends its stream and closes Updates().
DeferredClose(p) ==
  /\ alive
  /\ pc[p] = "close"
  /\ ex' = [ex EXCEPT ![p].closes = @ + 1, ![p].streamOpen = FALSE]
  /\ pc' = [pc EXCEPT ![p] = "wgDone"]
  /\ UNCHANGED <<supVars, sigVars, exitCause, steps, updatesCh, updVars, reVars, ob, regVars, stVars, colVars>>

\* The deferred wg.Done(): the pipeline goroutine has exited.
DeferredWgDone(p) ==
  /\ alive
  /\ pc[p] = "wgDone"
  /\ wg' = wg - 1
  /\ pc' = [pc EXCEPT ![p] = "exited"]
  /\ UNCHANGED <<mainPc, dbEnabled, mainGot, done, exchangesDone, sxPc, sigVars, exitCause, steps,
                 adVars, updVars, reVars, ob, regVars, stVars, colVars>>

\* ---- the exchange adapter (internal/exchange), after Connect ----
\* Updates() is closed once the connection has ended or Close() was called.
UpdatesClosed(p) == ex[p].connected /\ ~ex[p].streamOpen

\* The venue pushes one more depth update into Updates().
StreamEmit(p) ==
  /\ alive
  /\ ex[p].streamOpen
  /\ ex[p].produced < MaxUpdates
  /\ ex' = [ex EXCEPT ![p].produced = @ + 1]
  /\ updatesCh' = [updatesCh EXCEPT ![p] = Append(@, ex[p].produced + 1)]
  /\ UNCHANGED <<supVars, sigVars, pipeVars, updVars, reVars, ob, regVars, stVars, colVars>>

\* The connection ends on the venue's side: the sequence is exhausted.
StreamEnd(p) ==
  /\ alive
  /\ ex[p].streamOpen
  /\ ex' = [ex EXCEPT ![p].streamOpen = FALSE]
  /\ UNCHANGED <<supVars, sigVars, pipeVars, updatesCh, updVars, reVars, ob, regVars, stVars, colVars>>

\* ---- the update-application goroutine ----
\* Mutation of UpdRecv: the newest queued update is handled first.
UpdRecvNewestFirst(p) ==
  /\ alive
  /\ updPc[p] = "running"
  /\ updatesCh[p] # <<>>
  /\ CanWrite(ob[p])
  /\ ob' = [ob EXCEPT ![p] = HandleDepthUpdate(@, updatesCh[p][Len(updatesCh[p])])]
  /\ updatesCh' = [updatesCh EXCEPT ![p] = SubSeq(@, 1, Len(@) - 1)]
  /\ UNCHANGED <<supVars, sigVars, pipeVars, ex, updVars, reVars, regVars, stVars, colVars>>

\* for update := range ex.Updates() { ob.HandleDepthUpdate(update) }.
UpdRecv(p) ==
  /\ alive
  /\ updPc[p] = "running"
  /\ updatesCh[p] # <<>>
  /\ CanWrite(ob[p])
  /\ ob' = [ob EXCEPT ![p] = HandleDepthUpdate(@, Head(updatesCh[p]))]
  /\ updatesCh' = [updatesCh EXCEPT ![p] = Tail(@)]
  /\ UNCHANGED <<supVars, sigVars, pipeVars, ex, updVars, reVars, regVars, stVars, colVars>>

\* The range loop ends on the closed, drained channel; deferred close(updatesDone).
UpdEnd(p) ==
  /\ alive
  /\ updPc[p] = "running"
  /\ updatesCh[p] = <<>>
  /\ UpdatesClosed(p)
  /\ updPc' = [updPc EXCEPT ![p] = "done"]
  /\ UNCHANGED <<supVars, sigVars, pipeVars, adVars, reVars, ob, regVars, stVars, colVars>>

\* ---- the reinit timer goroutine ----
\* case <-ticker.C: ob.CheckAndReinitialize(provider) is called.
ReinitTick(p) ==
  /\ alive
  /\ reinitPc[p] = "select"
  /\ reinitPc' = [reinitPc EXCEPT ![p] = "check"]
  /\ UNCHANGED <<supVars, sigVars, pipeVars, adVars, updVars, ob, regVars, stVars, colVars>>

\* CheckAndReinitialize found a gap, a stale or a crossed book; the provider's
\* ex.GetSnapshot(ctx) returned a snapshot; the book is reset and reloaded.
ReinitReload(p) ==
  /\ alive
  /\ reinitPc[p] = "check"
  /\ CanWrite(ob[p])
  /\ ob' = [ob EXCEPT ![p] = LoadSnapshot(ResetForReinit(@))]
  /\ reinitPc' = [reinitPc EXCEPT ![p] = "replay"]
  /\ UNCHANGED <<supVars, sigVars, pipeVars, adVars, updVars, regVars, stVars, colVars>>

\* CheckAndReinitialize found nothing to do, or the provider's
\* ex.GetSnapshot(ctx) returned an error; the next tick checks again.
ReinitNoReload(p) ==
  /\ alive
  /\ reinitPc[p] = "check"
  /\ reinitPc' = [reinitPc EXCEPT ![p] = "select"]
  /\ UNCHANGED <<supVars, sigVars, pipeVars, adVars, updVars, ob, regVars, stVars, colVars>>

\* CheckAndReinitialize: replay of the buffered updates after the reload.
ReinitReplay(p) ==
  /\ alive
  /\ reinitPc[p] = "replay"
  /\ CanWrite(ob[p])
  /\ ob' = [ob EXCEPT ![p] = ProcessBufferedEvents(@)]
  /\ reinitPc' = [reinitPc EXCEPT ![p] = "select"]
  /\ UNCHANGED <<supVars, sigVars, pipeVars, adVars, updVars, regVars, stVars, colVars>>

\* case <-updatesDone: return.
ReinitUpdatesDone(p) ==
  /\ alive
  /\ reinitPc[p] = "select"
  /\ updatesDone(p)
  /\ reinitPc' = [reinitPc EXCEPT ![p] = "done"]
  /\ UNCHANGED <<supVars, sigVars, pipeVars, adVars, updVars, ob, regVars, stVars, colVars>>

\* case <-done: return.
ReinitDone(p) ==
  /\ alive
  /\ reinitPc[p] = "select"
  /\ done
  /\ reinitPc' = [reinitPc EXCEPT ![p] = "done"]
  /\ UNCHANGED <<supVars, sigVars, pipeVars, adVars, updVars, ob, regVars, stVars, colVars>>

\* case <-interrupt: return.
ReinitInterrupt(p) ==
  /\ alive
  /\ reinitPc[p] = "select"
  /\ interrupt > 0
  /\ interrupt' = interrupt - 1
  /\ reinitPc' = [reinitPc EXCEPT ![p] = "done"]
  /\ UNCHANGED <<supVars, signals, pipeVars, adVars, updVars, ob, regVars, stVars, colVars>>

\* ---- the stats printer goroutine ----
\* The venues printCombinedStats reports: those of the list that are initialized.
printCombinedStats(list) == {list[i] : i \in {j \in 1..Len(list) : IsInitialized(ob[list[j]])}}

\* case <-ticker.C: obMutex.Lock(); printCombinedStats starts at the head of the list.
StatsTick ==
  /\ alive
  /\ statsPc = "select"
  /\ obMutex = Unlocked
  /\ obMutex' = -1
  /\ statsPc' = "print"
  /\ statsIdx' = 1
  /\ UNCHANGED <<supVars, sigVars, pipeVars, adVars, updVars, reVars, ob, orderbooks,
                 orderbooksMap, colOrderbooks, colMu, colVars>>

\* printCombinedStats: the next entry's book is read (IsInitialized, GetStats)
\* under the book's read lock.
StatsBookRLock ==
  /\ alive
  /\ statsPc = "print"
  /\ statsIdx <= Len(orderbooks)
  /\ ob' = [ob EXCEPT ![orderbooks[statsIdx]] = RLock(@)]
  /\ statsPc' = "read"
  /\ UNCHANGED <<supVars, sigVars, pipeVars, adVars, updVars, reVars, regVars, statsIdx, colVars>>

\* printCombinedStats: the read returns; on to the next entry.
StatsBookRUnlock ==
  /\ alive
  /\ statsPc = "read"
  /\ ob' = [ob EXCEPT ![orderbooks[statsIdx]] = RUnlock(@)]
  /\ statsPc' = "print"
  /\ statsIdx' = statsIdx + 1
  /\ UNCHANGED <<supVars, sigVars, pipeVars, adVars, updVars, reVars, regVars, colVars>>

\* printCombinedStats returns at the end of the list; obMutex.Unlock().
StatsPrint ==
  /\ alive
  /\ statsPc = "print"
  /\ statsIdx > Len(orderbooks)
  /\ obMutex' = Unlocked
  /\ statsPc' = "select"
  /\ statsIdx' = 0
  /\ UNCHANGED <<supVars, sigVars, pipeVars, adVars, updVars, reVars, ob, orderbooks,
                 orderbooksMap, colOrderbooks, colMu, colVars>>

\* case <-done: return.
StatsDone ==
  /\ alive
  /\ statsPc = "select"
  /\ done
  /\ statsPc' = "done"
  /\ UNCHANGED <<supVars, sigVars, pipeVars, adVars, updVars, reVars, ob, regVars, statsIdx, colVars>>

\* case <-interrupt: return.
StatsInterrupt ==
  /\ alive
  /\ statsPc = "select"
  /\ interrupt > 0
  /\ interrupt' = interrupt - 1
  /\ statsPc' = "done"
  /\ UNCHANGED <<supVars, signals, pipeVars, adVars, updVars, reVars, ob, regVars, statsIdx, colVars>>

\* ---- the persistence collector (internal/collector) ----
\* createSnapshot: the row built for one venue from its stats.  The prices
\* of the model convert to float64 without rounding.
createSnapshot(exchange, st) ==
  [exchange |-> exchange,
   best_bid |-> Ptr(st.BestBid),
   best_ask |-> Ptr(st.BestAsk),
   mid_price |-> IF st.BestBid # 0 /\ st.BestAsk # 0 /\ st.BestAsk > st.BestBid
                   THEN Ptr((st.BestBid + st.BestAsk) \div 2)
                   ELSE Nil]

\* Mutation of collectOne: the IsInitialized check is missing.
collectOneNoSkip(batch, v, b) == Append(batch, createSnapshot(v, stats))

\* One iteration of the loop over the copied registry.
collectOne(batch, v, b) ==
  IF ~IsInitialized(b) THEN batch ELSE Append(batch, createSnapshot(v, stats))

\* SupabaseAPIClient.InsertOrderbookSnapshotsBatch: POSTs issued for a batch.
InsertOrderbookSnapshotsBatch(batch) == IF Len(batch) = 0 THEN 0 ELSE 1

\* Collector.Start, case <-ticker.C with c.enabled: collectAndStore begins.
ColTick ==
  /\ alive
  /\ colPc = "select"
  /\ colPc' = "rlock"
  /\ UNCHANGED <<supVars, sigVars, pipeVars, adVars, updVars, reVars, ob, regVars, stVars,
                 colCopy, colTodo, colSeenInit, snapshots, dbCalls, dbPosts, dbErr, stats, snapshot>>

\* collectAndStore: c.mu.RLock().
ColRLock ==
  /\ alive
  /\ colPc = "rlock"
  /\ colMu = Unlocked
  /\ colMu' = -1
  /\ colPc' = "copy"
  /\ UNCHANGED <<supVars, sigVars, pipeVars, adVars, updVars, reVars, ob, orderbooks, orderbooksMap,
                 obMutex, colOrderbooks, stVars, colCopy, colTodo, colSeenInit, snapshots,
                 dbCalls, dbPosts, dbErr, stats, snapshot>>

\* Mutation of ColCopy: the read lock is kept while the books are read and
\* the batch is sent.
ColCopyKeepsLock ==
  /\ alive
  /\ colPc = "copy"
  /\ colCopy' = colOrderbooks
  /\ colTodo' = colOrderbooks
  /\ colPc' = IF colOrderbooks = {} THEN "stored" ELSE "loop"
  /\ UNCHANGED <<supVars, sigVars, pipeVars, adVars, updVars, reVars, ob, regVars, stVars,
                 colSeenInit, snapshots, dbCalls, dbPosts, dbErr, stats, snapshot>>

\* collectAndStore: copy the registry; c.mu.RUnlock(); return if the copy is empty.
ColCopy ==
  /\ alive
  /\ colPc = "copy"
  /\ colCopy' = colOrderbooks
  /\ colTodo' = colOrderbooks
  /\ colMu' = Unlocked
  /\ colPc' = IF colOrderbooks = {} THEN "stored" ELSE "loop"
  /\ UNCHANGED <<supVars, sigVars, pipeVars, adVars, updVars, reVars, ob, orderbooks, orderbooksMap,
                 obMutex, colOrderbooks, stVars, colSeenInit, snapshots, dbCalls, dbPosts, dbErr, stats, snapshot>>

\* collectAndStore: the loop body for one entry of the copy (map order is arbitrary).
ColExamine(v) ==
  /\ alive
  /\ colPc = "loop"
  /\ v \in colTodo
  /\ snapshots' = collectOne(snapshots, v, ob[v])
  /\ colSeenInit' = IF IsInitialized(ob[v]) THEN colSeenInit \cup {v} ELSE colSeenInit
  /\ colTodo' = colTodo \ {v}
  /\ colPc' = IF colTodo = {v} THEN "store" ELSE "loop"
  /\ UNCHANGED <<supVars, sigVars, pipeVars, adVars, updVars, reVars, ob, regVars, stVars,
                 colCopy, dbCalls, dbPosts, dbErr, stats, snapshot>>

\* collectAndStore: len(snapshots) > 0 and the insert succeeded.
ColStoreOk ==
  /\ alive
  /\ colPc = "store"
  /\ Len(snapshots) > 0
  /\ dbCalls' = dbCalls + 1
  /\ dbPosts' = dbPosts + InsertOrderbookSnapshotsBatch(snapshots)
  /\ dbErr' = FALSE
  /\ colPc' = "stored"
  /\ UNCHANGED <<supVars, sigVars, pipeVars, adVars, updVars, reVars, ob, regVars, stVars,
                 colCopy, colTodo, colSeenInit, snapshots,
                 stats, snapshot>>

\* collectAndStore: len(snapshots) > 0 and the insert returned an error, which is logged.
ColStoreFail ==
  /\ alive
  /\ colPc = "store"
  /\ Len(snapshots) > 0
  /\ dbCalls' = dbCalls + 1
  /\ dbPosts' = dbPosts + InsertOrderbookSnapshotsBatch(snapshots)
  /\ dbErr' = TRUE
  /\ colPc' = "stored"
  /\ UNCHANGED <<supVars, sigVars, pipeVars, adVars, updVars, reVars, ob, regVars, stVars,
                 colCopy, colTodo, colSeenInit, snapshots,
                 stats, snapshot>>

\* collectAndStore: no valid snapshots to store.
ColStoreNone ==
  /\ alive
  /\ colPc = "store"
  /\ Len(snapshots) = 0
  /\ colPc' = "stored"
  /\ UNCHANGED <<supVars, sigVars, pipeVars, adVars, updVars, reVars, ob, regVars, stVars,
                 colCopy, colTodo, colSeenInit, snapshots, dbCalls, dbPosts, dbErr, stats, snapshot>>

\* Mutation of ColReturn: a batch whose insert failed is kept for the next tick.
ColReturnKeepsFailed ==
  /\ alive
  /\ colPc = "stored"
  /\ colPc' = "select"
  /\ colCopy' = {}
  /\ colTodo' = {}
  /\ colSeenInit' = {}
  /\ snapshots' = IF dbErr THEN snapshots ELSE <<>>
  /\ dbCalls' = 0
  /\ dbPosts' = 0
  /\ UNCHANGED <<supVars, sigVars, pipeVars, adVars, updVars, reVars, ob, regVars, stVars, dbErr, stats, snapshot>>

\* collectAndStore returns to the loop of Start; its locals are gone.
ColReturn ==
  /\ alive
  /\ colPc = "stored"
  /\ colPc' = "select"
  /\ colCopy' = {}
  /\ colTodo' = {}
  /\ colSeenInit' = {}
  /\ snapshots' = <<>>
  /\ dbCalls' = 0
  /\ dbPosts' = 0
  /\ UNCHANGED <<supVars, sigVars, pipeVars, adVars, updVars, reVars, ob, regVars, stVars, dbErr, stats, snapshot>>

\* stats := ob.GetStats(): the book reports any best bid and best ask.
GetStats ==
  /\ alive
  /\ \E bid, ask \in Prices : stats' = [BestBid |-> bid, BestAsk |-> ask]
  /\ snapshot' = Nil
  /\ UNCHANGED <<supVars, sigVars, pipeVars, adVars, updVars, reVars, ob, regVars, stVars,
                 colPc, colCopy, colTodo, colSeenInit, snapshots, dbCalls, dbPosts, dbErr>>

\* snapshot := c.createSnapshot(exchange, stats, ob).
CreateSnapshot(v) ==
  /\ alive
  /\ snapshot = Nil
  /\ snapshot' = Ptr(createSnapshot(v, stats))
  /\ UNCHANGED <<supVars, sigVars, pipeVars, adVars, updVars, reVars, ob, regVars, stVars,
                 colPc, colCopy, colTodo, colSeenInit, snapshots, dbCalls, dbPosts, dbErr, stats>>

\* ---- the program ----
\* From the start of the goroutine to the book's entry in the shared collections.
Startup(p) ==
  \/ CreateOk(p) \/ CreateFail(p)
  \/ ConnectOk(p) \/ ConnectFail(p)
  \/ GetSnapshotOk(p) \/ GetSnapshotFail(p)
  \/ LoadSnapshotOk(p) \/ LoadSnapshotFail(p)
  \/ GoUpdates(p) \/ GoReinit(p) \/ ProcessBuffered(p)
  \/ LockForAdd(p) \/ AddShared(p)

\* The calls into the collector when dataCollector != nil.
WithCollector(p) ==
  \/ RegisterLock(p) \/ RegisterOrderbook(p)
  \/ UnregisterLock(p) \/ UnregisterOrderbook(p)

\* The steps that replace them when dataCollector == nil.
WithoutCollector(p) == RegisterSkip(p) \/ UnregisterSkip(p)

\* The shutdown branches of the select.
WaitShutdown(p) == WaitDone(p) \/ WaitInterrupt(p)

\* From the map deletion to the end of the goroutine.
Teardown(p) == LockForDelete(p) \/ DeleteFromMap(p) \/ DeferredClose(p) \/ DeferredWgDone(p)

Pipeline(p) ==
  \/ Startup(p)
  \/ WithCollector(p)
  \/ WithoutCollector(p)
  \/ WaitUpdatesDone(p)
  \/ WaitShutdown(p)
  \/ Teardown(p)

ReinitTimer(p) == ReinitTick(p) \/ ReinitReload(p) \/ ReinitNoReload(p) \/ ReinitReplay(p)

ReinitExit(p) == ReinitUpdatesDone(p) \/ ReinitDone(p) \/ ReinitInterrupt(p)

Main == MainDbInit \/ MainDbFatal \/ MainNoDb \/ MainStart \/ MainRecvInterrupt \/ MainCloseDone \/ MainReturn

StartExchanges == SxSpawn \/ SxGoStats \/ SxWgWait \/ SxCloseExchangesDone

StatsTimer == StatsTick \/ StatsBookRLock \/ StatsBookRUnlock \/ StatsPrint

StatsExit == StatsDone \/ StatsInterrupt

CollectorTimer ==
  \/ ColTick \/ ColRLock \/ ColCopy \/ (\E v \in Venues : ColExamine(v))
  \/ ColStoreOk \/ ColStoreFail \/ ColStoreNone \/ ColReturn

\* The goroutines of the program without their timer branches.
Program ==
  \/ Main
  \/ StartExchanges
  \/ (\E p \in Venues : Pipeline(p))
  \/ (\E p \in Venues : UpdEnd(p))
  \/ (\E p \in Venues : ReinitExit(p))
  \/ StatsExit

\* Everything: the program, its timers, the venues' streams and the signals.
Next ==
  \/ Program
  \/ Signal
  \/ (\E p \in Venues : StreamEnd(p))
  \/ (\E p \in Venues : StreamEmit(p) \/ UpdRecv(p))
  \/ (\E p \in Venues : ReinitTimer(p))
  \/ StatsTimer
  \/ CollectorTimer

Spec == Init /\ [][Next]_vars

\* Start-up, registration and shutdown: signals arrive and streams end, while
\* no timer fires and no depth update arrives during the run.
NextLifecycle ==
  \/ Program
  \/ Signal
  \/ (\E p \in Venues : StreamEnd(p))

SpecLifecycle == Init /\ [][NextLifecycle]_vars

\* The same with depth updates arriving on the streams.
NextStream ==
  \/ Program
  \/ Signal
  \/ (\E p \in Venues : StreamEnd(p))
  \/ (\E p \in Venues : StreamEmit(p) \/ UpdRecv(p))

SpecStream == Init /\ [][NextStream]_vars

\* Persistence: -db-enabled is set; the collector and the reinit timers tick
\* while pipelines come and go with their streams; no signal arrives during
\* the run, so no shutdown branch is taken.
InitDb == Init /\ dbEnabled

NextCollector ==
  \/ MainDbInit \/ MainDbFatal \/ MainStart
  \/ StartExchanges
  \/ (\E p \in Venues : Startup(p))
  \/ (\E p \in Venues : WithCollector(p))
  \/ (\E p \in Venues : WaitUpdatesDone(p))
  \/ (\E p \in Venues : Teardown(p))
  \/ (\E p \in Venues : UpdEnd(p))
  \/ (\E p \in Venues : ReinitUpdatesDone(p))
  \/ (\E p \in Venues : StreamEnd(p))
  \/ (\E p \in Venues : ReinitTimer(p))
  \/ CollectorTimer

SpecCollector == InitDb /\ [][NextCollector]_vars

\* Delivery of depth updates: the collector is off, no signal arrives and no
\* timer fires; the venues' streams yield updates and end, and each pipeline
\* runs from its start to its exit.
InitNoDb == Init /\ ~dbEnabled

NextDelivery ==
  \/ MainNoDb \/ MainStart
  \/ StartExchanges
  \/ (\E p \in Venues : Startup(p))
  \/ (\E p \in Venues : WithoutCollector(p))
  \/ (\E p \in Venues : WaitUpdatesDone(p))
  \/ (\E p \in Venues : Teardown(p))
  \/ (\E p \in Venues : StreamEmit(p) \/ UpdRecv(p))
  \/ (\E p \in Venues : UpdEnd(p))
  \/ (\E p \in Venues : ReinitUpdatesDone(p))
  \/ (\E p \in Venues : StreamEnd(p))

SpecDelivery == InitNoDb /\ [][NextDelivery]_vars

\* The locks: -db-enabled is set; the stats printer, the collector and the
\* reinit timers tick while pipelines register and, their streams ending,
\* unregister; no depth update is delivered after start-up and no signal
\* arrives during the run.
NextLocks ==
  \/ MainDbInit \/ MainDbFatal \/ MainStart
  \/ StartExchanges
  \/ (\E p \in Venues : Startup(p))
  \/ (\E p \in Venues : WithCollector(p))
  \/ (\E p \in Venues : WaitUpdatesDone(p))
  \/ (\E p \in Venues : Teardown(p))
  \/ (\E p \in Venues : UpdEnd(p))
  \/ (\E p \in Venues : ReinitUpdatesDone(p))
  \/ (\E p \in Venues : StreamEnd(p))
  \/ (\E p \in Venues : ReinitTimer(p))
  \/ StatsTimer
  \/ CollectorTimer

SpecLocks == InitDb /\ [][NextLocks]_vars

\* The rows of the collector: createSnapshot applied to the stats of books of
\* every content, apart from the run of the pipelines.
NextRows == GetStats \/ (\E v \in Venues : CreateSnapshot(v))

SpecRows == InitDb /\ [][NextRows]_vars

\* Scheduling: a goroutine that can take a step eventually takes one.  The
\* operating system and the venues owe nothing: no fairness for Signal or
\* StreamEnd.
Fairness ==
  /\ WF_vars(Main)
  /\ WF_vars(StartExchanges)
  /\ \A p \in Venues : WF_vars(Pipeline(p))
  /\ \A p \in Venues : WF_vars(UpdEnd(p))
  /\ \A p \in Venues : WF_vars(ReinitExit(p))
  /\ WF_vars(StatsExit)

FairLifecycle == SpecLifecycle /\ Fairness

\* ---- vocabulary of the claims ----
Range(seq) == {seq[i] : i \in 1..Len(seq)}

\* The branches that end a pipeline before it registers its book.
FailCauses == {"create", "connect", "snapshot", "load"}

\* The branches of the select that end a registered pipeline.
SelectCauses == {"updatesDone", "done", "interrupt"}

\* The pipeline has left both registries behind.
Unregistered(p) == pc[p] \in {"lockOb2", "deleteMap", "close", "wgDone", "exited"} /\ exitCause[p] \in SelectCauses

\* The process has ended: main returned, or log.Fatalf at start-up.
ProcessEnded == mainPc \in {"returned", "fatal"}

\* C1: once an interrupt signal has been delivered, eventually every connected
\* adapter has been closed, every pipeline has exited and runMultiExchange has
\* returned, whichever goroutine receives from the interrupt channel.
C1_ShutdownLiveness ==
  (signals > 0) ~>
    \/ mainPc = "fatal"
    \/ /\ mainPc = "returned"
       /\ \A p \in Venues : pc[p] = "exited" /\ (ex[p].connected => ex[p].closes > 0)

\* C2: in every pipeline the start-up calls happen in the order Connect, start
\* of the Updates() consumer, GetSnapshot, LoadSnapshot, ProcessBufferedEvents.
StartupOrder == <<"Connect", "Updates", "GetSnapshot", "LoadSnapshot", "ProcessBufferedEvents">>

C2_StartupDiscipline ==
  \A p \in Venues : steps[p] = SubSeq(StartupOrder, 1, Len(steps[p]))

\* C3: after the shutdown signal a pipeline closes its adapter, its update
\* goroutine finishes draining, then the book is unregistered, then the
\* pipeline exits; no HandleDepthUpdate follows the unregistration and the
\* update goroutine has ended when the pipeline exits.
C3_ShutdownOrdering ==
  [][\A p \in Venues :
       /\ (exitCause'[p] \in {"done", "interrupt"} /\ pc[p] = "unregister" /\ pc'[p] # "unregister")
             => (ex[p].closes > 0 /\ updPc[p] = "done")
       /\ Unregistered(p) => ob'[p] = ob[p] \/ reinitPc'[p] # reinitPc[p]
       /\ (pc'[p] = "exited" /\ updPc[p] # "none") => updPc'[p] = "done"]_vars

\* C4: whenever runMultiExchange or startExchangesForSymbol has returned,
\* every pipeline goroutine has exited.
C4_JoinBeforeReturn ==
  (mainPc = "returned" \/ sxPc \in {"returned", "done"}) => \A p \in Venues : pc[p] = "exited"

\* Reached: main has returned after a pipeline that was shut down by done.
C4_Witness ==
  mainPc = "returned" /\ \E p \in Venues : exitCause[p] = "done" /\ pc[p] = "exited"

\* C5: a book is in orderbooksMap or in the collector registry only if its
\* pipeline has completed Connect, GetSnapshot, LoadSnapshot and the initial
\* ProcessBufferedEvents, none of them failing.
C5_RegisterOnInitComplete ==
  \A p \in Venues :
    (p \in orderbooksMap \/ p \in colOrderbooks \/ p \in Range(orderbooks)) =>
      /\ {"Connect", "GetSnapshot", "LoadSnapshot", "ProcessBufferedEvents"} \subseteq Range(steps[p])
      /\ steps[p][Len(steps[p])] = "ProcessBufferedEvents"
      /\ exitCause[p] \notin FailCauses

\* Reached: a book registered in both registries.
C5_Witness == \E p \in Venues : p \in orderbooksMap /\ p \in colOrderbooks

\* C6: no exited pipeline has an entry in the collector registry or in
\* orderbooksMap, whichever branch of the select ended it.
C6_UnregisterOnExit ==
  \A p \in Venues : pc[p] = "exited" => p \notin colOrderbooks /\ p \notin orderbooksMap

\* Reached: with the collector on, one registered pipeline was ended by its
\* stream and the other by the interrupt channel, and both have exited.
C6_Witness ==
  /\ dbEnabled
  /\ \E p, q \in Venues :
       /\ pc[p] = "exited" /\ exitCause[p] = "updatesDone"
       /\ pc[q] = "exited" /\ exitCause[q] = "interrupt"

\* C7: a pipeline whose construction, Connect, GetSnapshot or LoadSnapshot
\* fails exits without ever registering, and its failure changes nothing of
\* any other pipeline, of the registries or of the supervisor.
C7_FailureContainment ==
  /\ [](\A p \in Venues : exitCause[p] \in FailCauses =>
          /\ p \notin orderbooksMap /\ p \notin colOrderbooks /\ p \notin Range(orderbooks)
          /\ pc[p] \in {"close", "wgDone", "exited"})
  /\ [][\A p \in Venues : (exitCause[p] = "none" /\ exitCause'[p] \in FailCauses) =>
          /\ \A q \in Venues \ {p} :
                /\ pc'[q] = pc[q] /\ exitCause'[q] = exitCause[q]
                /\ ex'[q] = ex[q] /\ ob'[q] = ob[q] /\ updatesCh'[q] = updatesCh[q]
                /\ updPc'[q] = updPc[q] /\ reinitPc'[q] = reinitPc[q]
          /\ UNCHANGED <<mainPc, mainGot, done, exchangesDone, sxPc, wg, interrupt, regVars, stVars, colVars>>
          /\ p \notin orderbooksMap /\ p \notin colOrderbooks /\ p \notin Range(orderbooks)]_vars

\* Reached: one pipeline has failed and exited while the other is registered,
\* waits in its select with its stream open and its update goroutine running,
\* and the supervisor still waits for a signal.
C7_Witness ==
  \E p, q \in Venues :
    /\ exitCause[p] \in FailCauses /\ pc[p] = "exited"
    /\ pc[q] = "select" /\ q \in orderbooksMap /\ (dbEnabled => q \in colOrderbooks)
    /\ ex[q].streamOpen /\ updPc[q] = "running"
    /\ mainPc = "wait"

\* C8: after the shutdown signal every reinit timer goroutine, the stats
\* printer goroutine and the collector's Start loop eventually terminate.
C8_CancellationReachesAll ==
  (signals > 0) ~>
    \/ ProcessEnded
    \/ /\ \A p \in Venues : reinitPc[p] = "done" \/ (reinitPc[p] = "none" /\ pc[p] = "exited")
       /\ statsPc = "done"
       /\ dbEnabled => colPc = "done"

\* C9: runMultiExchange has returned only if its main loop received from the
\* interrupt channel and closed done.
C9_ExitOnlyOnSignal ==
  mainPc = "returned" => mainGot /\ done /\ signals > 0

\* Reached: every pipeline ended on its own, startExchangesForSymbol returned,
\* and runMultiExchange returned only after the signal.
C9_Witness ==
  /\ mainPc = "returned"
  /\ \A p \in Venues : exitCause[p] \in FailCauses \cup {"updatesDone"}

\* C10: a tick makes at most one InsertOrderbookSnapshotsBatch call; the batch
\* holds exactly one row for each book of the copied registry that reported
\* IsInitialized() when examined and no other row; without such a book no
\* call is made.
C10_BatchContent ==
  /\ dbCalls <= 1
  /\ dbPosts = dbCalls
  /\ colSeenInit \subseteq colCopy
  /\ colPc = "stored" =>
       /\ dbCalls = (IF colSeenInit = {} THEN 0 ELSE 1)
       /\ Len(snapshots) = Cardinality(colSeenInit)
       /\ {snapshots[i].exchange : i \in 1..Len(snapshots)} = colSeenInit

\* Reached: a tick that copied two books, skipped the uninitialized one and
\* sent one batch with the other's row.
C10_Witness ==
  /\ colPc = "stored"
  /\ dbCalls = 1
  /\ colCopy = Venues
  /\ Cardinality(colSeenInit) = 1

\* C11: the collector holds its registry lock only while it copies the
\* registry, never while it reads a book or while the insert is in flight, so
\* RegisterOrderbook and UnregisterOrderbook never wait for a database call;
\* and no step of collectAndStore changes the registry, the supervisor's
\* collections or any book.
C11_SinkNeverBlocks ==
  /\ [](colMu = -1 => colPc = "copy")
  /\ [][colVars' # colVars => UNCHANGED <<colOrderbooks, orderbooks, orderbooksMap, ob>>]_vars

\* Reached: while the collector is about to send a non-empty batch, a pipeline
\* holds the registry lock inside RegisterOrderbook.
C11_Witness ==
  /\ colPc = "store"
  /\ Len(snapshots) > 0
  /\ \E p \in Venues : pc[p] = "registerW" /\ colMu = p

\* C12: after an insert that returned an error the collector is back in the
\* loop of Start; the failed batch is gone when collectAndStore returns, so a
\* tick starts with an empty batch and no call made, and every row of a batch
\* comes from a book read during the tick that sends it.
C12_FireAndForget ==
  /\ [](dbErr => colPc \in {"select", "rlock", "copy", "loop", "store", "stored"})
  /\ [](colPc \in {"select", "rlock", "copy"} =>
          snapshots = <<>> /\ colSeenInit = {} /\ dbCalls = 0)
  /\ []({snapshots[i].exchange : i \in 1..Len(snapshots)} \subseteq colSeenInit)
  /\ [][(colPc = "stored" /\ colPc' # "stored") => (colPc' = "select" /\ snapshots' = <<>>)]_vars

\* Reached: an insert has failed, and a later tick that found no book to
\* report has ended without any call to the database.
C12_Witness ==
  /\ dbErr
  /\ colPc = "stored"
  /\ snapshots = <<>>
  /\ dbCalls = 0

\* The updates a venue's stream has yielded so far, in the order it yielded them.
Yielded(p) == [i \in 1..ex[p].produced |-> i]

\* C13: the updates a book was handed (replayed or applied, then buffered),
\* followed by those still queued in Updates(), are exactly the updates the
\* stream has yielded since Connect, in the order it yielded them; and only
\* the running update goroutine takes from the queue, one update at a time
\* from its head, handing that update to HandleDepthUpdate.
C13_InOrderDelivery ==
  /\ [](\A p \in Venues : ob[p].applied \o ob[p].pending \o updatesCh[p] = Yielded(p))
  /\ [][\A p \in Venues :
          (updatesCh'[p] # updatesCh[p] /\ ex'[p] = ex[p]) =>
             /\ updPc[p] = "running"
             /\ updatesCh[p] # <<>>
             /\ updatesCh'[p] = Tail(updatesCh[p])
             /\ ob'[p] = HandleDepthUpdate(ob[p], Head(updatesCh[p]))]_vars

\* Reached: in one pipeline the first update was handed to a book that is not
\* yet initialized, which buffered it, while the second waits in the queue;
\* in the other the closed stream is drained and the book holds every update
\* in the order of the stream.
C13_Witness ==
  \E p, q \in Venues :
    /\ pc[p] = "processBuffered"
    /\ ob[p].pending = <<1>>
    /\ updatesCh[p] = <<2>>
    /\ updPc[q] = "done"
    /\ ex[q].produced >= 2
    /\ ob[q].initialized
    /\ ob[q].applied = Yielded(q)

\* C14: no pipeline holds obMutex and the collector's mutex together; a book's
\* lock is held across steps only by the stats printer, which took obMutex
\* before it and takes neither obMutex again nor the collector's mutex while
\* it reads a book; the collector reads books only after it released its
\* mutex; and whoever holds one of these locks can take its next step, so
\* no reachable state has these tasks waiting for each other.
C14_LockOrdering ==
  /\ [](\A p \in Venues : ~(obMutex = p /\ colMu = p))
  /\ [](\A v \in Venues : ob[v].readers > 0 =>
          statsPc = "read" /\ obMutex = -1 /\ orderbooks[statsIdx] = v)
  /\ [](colPc = "loop" => colMu # -1)
  /\ [][/\ (obMutex # -1 /\ obMutex' = -1) => \A v \in Venues : ob[v].readers = 0
        /\ (colMu = Unlocked /\ colMu' # Unlocked) => UNCHANGED <<statsPc, statsIdx>>]_vars
  /\ [](alive =>
          /\ \A p \in Venues : obMutex = p => ENABLED (AddShared(p) \/ DeleteFromMap(p))
          /\ \A p \in Venues : colMu = p => ENABLED (RegisterOrderbook(p) \/ UnregisterOrderbook(p))
          /\ obMutex = -1 => ENABLED StatsTimer
          /\ statsPc = "read" => ENABLED StatsBookRUnlock
          /\ colMu = -1 => ENABLED ColCopy)

\* Reached: the stats printer reads a book under obMutex while one pipeline
\* waits for obMutex to delete its map entry and the other holds the
\* collector's mutex.
C14_Witness ==
  /\ statsPc = "read"
  /\ obMutex = -1
  /\ \E p, q \in Venues : pc[p] = "lockOb2" /\ colMu = q

\* The tasks that are between obMutex.Lock() and obMutex.Unlock().
InCritical(p) == pc[p] \in {"addShared", "deleteMap"}
PrinterInCritical == statsPc \in {"print", "read"}

\* C15: a pipeline that appends to the list, writes the map or deletes from
\* it, and the stats printer while it iterates the list, hold obMutex; at most
\* one of them is at such an access at a time; and the list and the map change
\* only in a step of the pipeline that holds obMutex.
C15_MutualExclusion ==
  /\ [](\A p \in Venues : InCritical(p) => obMutex = p)
  /\ [](PrinterInCritical => obMutex = -1)
  /\ [](Cardinality({p \in Venues : InCritical(p)}) + (IF PrinterInCritical THEN 1 ELSE 0) <= 1)
  /\ [][(orderbooks' # orderbooks \/ orderbooksMap' # orderbooksMap) =>
          \E p \in Venues : obMutex = p /\ InCritical(p) /\ pc'[p] # pc[p]]_vars

\* Reached: while the stats printer iterates the list, one pipeline waits for
\* obMutex to add its book and the other waits for it to delete its entry.
C15_Witness ==
  /\ statsPc = "read"
  /\ \E p, q \in Venues : pc[p] = "lockOb" /\ pc[q] = "lockOb2"

\* C16: every row built from stats whose best bid and best ask are both set
\* carries a mid price, and it is half the sum of the two, also when the best
\* bid is not below the best ask.
C16_PersistedMidPrice ==
  (snapshot # Nil /\ stats.BestBid # 0 /\ stats.BestAsk # 0) =>
     snapshot[1].mid_price = Ptr((stats.BestBid + stats.BestAsk) \div 2)

\* C17: an adapter is closed at most once and only after its Connect
\* succeeded; a pipeline that is past its deferred calls has closed its
\* adapter exactly once if Connect succeeded, whichever branch ended it, and
\* not at all if the adapter was not constructed or Connect failed.
C17_CloseOnEveryExit ==
  \A p \in Venues :
    /\ ex[p].closes <= 1
    /\ ex[p].closes > 0 => ex[p].connected
    /\ pc[p] \in {"wgDone", "exited"} =>
         /\ ex[p].closes = (IF ex[p].connected THEN 1 ELSE 0)
         /\ ex[p].connected <=> exitCause[p] \in {"snapshot", "load"} \cup SelectCauses
         /\ ~ex[p].connected <=> exitCause[p] \in {"create", "connect"}

\* Reached: one pipeline was ended by the interrupt channel and has closed
\* its adapter once; the other, whose Connect failed, has exited without a
\* Close.
C17_Witness ==
  \E p, q \in Venues :
    /\ pc[p] = "exited" /\ exitCause[p] = "interrupt" /\ ex[p].closes = 1
    /\ pc[q] = "exited" /\ exitCause[q] = "connect" /\ ex[q].closes = 0

\* C18: once a pipeline's adapter has been closed, the pipeline issues no
\* GetSnapshot on it, no tick of its reinit timer goroutine starts a
\* CheckAndReinitialize, and no CheckAndReinitialize obtains a snapshot from it.
C18_NoUseAfterClose ==
  [][\A p \in Venues :
       /\ (pc[p] = "getSnapshot" /\ pc'[p] # "getSnapshot") => ex[p].closes = 0
       /\ (reinitPc[p] = "select" /\ reinitPc'[p] = "check") => ex[p].closes = 0
       /\ (reinitPc[p] = "check" /\ reinitPc'[p] = "replay") => ex[p].closes = 0]_vars

\* C19: CheckAndReinitialize runs on a pipeline's book (checking, or reloaded
\* and about to replay) only after the pipeline's initial
\* ProcessBufferedEvents has returned.
C19_ReinitOnlyOnLiveBook ==
  \A p \in Venues :
    reinitPc[p] \in {"check", "replay"} => "ProcessBufferedEvents" \in Range(steps[p])

\* C20: the list the stats printer iterates holds the venues of orderbooksMap
\* and no other; no venue that printCombinedStats reports belongs to a
\* pipeline that has exited, and the printer never reads the book of a
\* pipeline that has deleted its map entry.
C20_PrinterSeesLivePipelines ==
  /\ Range(orderbooks) = orderbooksMap
  /\ \A p \in printCombinedStats(orderbooks) : pc[p] # "exited"
  /\ statsPc = "read" => orderbooks[statsIdx] \in orderbooksMap

\* C21: every venue of the collector registry is a venue of orderbooksMap: a
\* venue enters the registry only when it is in the map, and leaves the map
\* only when it is no longer in the registry.
C21_RegistryNesting ==
  /\ [](colOrderbooks \subseteq orderbooksMap)
  /\ [][\A p \in Venues :
          /\ (p \notin colOrderbooks /\ p \in colOrderbooks') => p \in orderbooksMap
          /\ (p \in orderbooksMap /\ p \notin orderbooksMap') => p \notin colOrderbooks]_vars

\* Reached: one pipeline has unregistered from the collector and is about to
\* delete its map entry, while the other is in both the registry and the map.
C21_Witness ==
  \E p, q \in Venues :
    /\ pc[p] = "deleteMap"
    /\ p \in orderbooksMap \ colOrderbooks
    /\ q \in colOrderbooks

====
